---- MODULE Spec2Model ----
(***************************************************************************)
(* A model of the event_feed crate: a Feed holding weak references to      *)
(* Readers (src/src/feed.rs), Readers holding a mutex-protected queue of   *)
(* events and the draining iterator ReaderIter (src/src/reader.rs).        *)
(*                                                                         *)
(* Readers are numbered in the order add_reader creates them.  An event    *)
(* is the value one invocation of the factory returned, named by what     *)
(* produced it: the record [send, call] is the value that the call-th      *)
(* invocation of the factory returned in the send-th call of send_with.    *)
(***************************************************************************)
EXTENDS Integers, Sequences, FiniteSets, Bags, TLC

\* ---------------------------------------------------------------- bounds
\* Readers that can ever be created, and the number a feed that also
\* broadcasts gets.
MaxReaders == 4
MaxSubscribers == 2
\* Calls of send_with, send and send_default.
MaxSends == 2

\* usize arithmetic wraps modulo 2^w in builds without overflow checks; the
\* width is scaled down, no list of the model comes near it.
UsizeModulus == 2 ^ 16

Feeds == {1}
\* The feeds that Clone makes of them.
Clones == {2}
ReaderIds == 1..MaxReaders
\* The threads: two broadcast, two drain.
Senders == {1, 2}
Drainers == {1, 2}

VARIABLES
    readers,    \* Feed::readers of each feed: the Vec of weak references
    created,    \* number of Reader objects created so far by add_reader
    handle,     \* handle[r]: the Arc returned by add_reader is still held
    queue,      \* Reader::queue of each reader: the VecDeque behind the mutex
    lock,       \* the mutex of each reader's queue: 0 free, else the holder
    sender,     \* each broadcasting thread's position inside send_with; of
                \* its fields, k0 is the number of live references when the
                \* call began and held the readers whose iterator has been
                \* held since then
    drainer,    \* each consuming thread's position around read()
    sent,       \* number of send_with calls started so far
    born,       \* born[r]: value of sent when add_reader created r
    got,        \* got[d]: the bag of <<reader, event>> pairs yielded to thread d
    panicked,   \* a panic unwound the thread that owns the feed; the
                \* program is followed no further than that
    iter,       \* iter[d]: the life of the ReaderIter of thread d so far: the
                \* queue it found, what it yielded and from which end
    by          \* by[k]: the thread that made the k-th call of send_with,
                \* and the feed it called it on

vars == <<readers, created, handle, queue, lock, sender, drainer, sent, born,
          got, panicked, iter, by>>

\* What is kept about a run without being part of the program's state.
history == <<iter, by>>

\* ------------------------------------------------------- thread identities
SenderTid(t) == t
DrainerTid(d) == Cardinality(Senders) + d

IdleSender ==
    [pc |-> "idle", feed |-> 0, i |-> 0, send |-> 0, calls |-> 0, k0 |-> 0,
     fac |-> "none", ev |-> <<>>, held |-> {}]

IdleDrainer == [pc |-> "idle", r |-> 0]

\* No call of send_with.
NoCall == [thread |-> 0, feed |-> 0]

\* No iterator: nothing found, nothing yielded, no None returned, no count.
NoIter == [q0 |-> <<>>, out |-> <<>>, fused |-> FALSE, ret |-> -1]

\* ------------------------------------------------ Arc / Weak bookkeeping
\* A loop that walks the list from its end.
nth_back(rs, i) == rs[Len(rs) - i]

\* for reader in &self.readers: the element of the i-th iteration, i from 0.
nth(rs, i) == rs[i + 1]

\* The reader whose upgraded Arc the sender holds, 0 when it holds none.
Upgraded(t) ==
    IF sender[t].pc \in {"f", "recieve", "locked"}
    THEN nth(readers[sender[t].feed], sender[t].i)
    ELSE 0

\* Weak::strong_count: the handle returned by add_reader plus the temporary
\* Arcs that send_with holds between upgrade() and the end of its loop body.
strong_count(r) ==
    (IF handle[r] THEN 1 ELSE 0) + Cardinality({t \in Senders : Upgraded(t) = r})

Dead == {r \in 1..created : strong_count(r) = 0}

\* ------------------------------------------------------- usize arithmetic
\* a - b on usize: the value a build without overflow checks computes, and
\* whether the subtraction underflowed (a panic with overflow checks).
USub(a, b) ==
    IF a >= b THEN [v |-> a - b, o |-> FALSE]
    ELSE [v |-> (a - b) + UsizeModulus, o |-> TRUE]

\* Vec::swap(i, j), 0-based indices.
swap(rs, i, j) ==
    [k \in 1..Len(rs) |->
        IF k = i + 1 THEN rs[j + 1] ELSE IF k = j + 1 THEN rs[i + 1] ELSE rs[k]]

\* Vec::truncate(n).
truncate(rs, n) == IF n >= Len(rs) THEN rs ELSE SubSeq(rs, 1, n)

\* ------------------------------------------ Feed::remove_dangling_readers
\* The body of find_dead_on_end's loop over the range lo..hi (ascending,
\* hi excluded): count dead readers until the first live one.
RECURSIVE dead_run(_, _, _, _, _)
dead_run(rs, dead, i, hi, result) ==
    IF i >= hi THEN result
    ELSE IF rs[i + 1] \in dead
         THEN dead_run(rs, dead, i + 1, hi, result + 1)
         ELSE result

\* find_dead_on_end(readers, current): the range is
\* (readers.len() - 1 - current)..0.
find_dead_on_end(rs, dead, current) ==
    LET a == USub(Len(rs), 1)
        b == USub(a.v, current)
    IN  [result   |-> dead_run(rs, dead, b.v, 0, current),
         overflow |-> a.o \/ b.o]

\* A slip in the swap target: counted from the front of the list instead
\* of from its end.
location_on_front(rs, dead_on_end) == [v |-> dead_on_end, o |-> FALSE]

\* self.readers.len() - 1 - dead_on_end
location_on_end(rs, dead_on_end) ==
    LET a == USub(Len(rs), 1)
        b == USub(a.v, dead_on_end)
    IN  [v |-> b.v, o |-> a.o \/ b.o]

\* let new_size = self.readers.len() - dead_on_end; truncate(new_size)
drop_tail(rs, dead_on_end, checks) ==
    LET n == USub(Len(rs), dead_on_end)
    IN  IF n.o /\ checks THEN [readers |-> rs, panic |-> TRUE]
        ELSE [readers |-> truncate(rs, n.v), panic |-> FALSE]

\* for i in 0..self.readers.len() { ... }, from iteration i on, followed by
\* the truncation.  checks: the build panics on arithmetic overflow.
RECURSIVE compact_loop(_, _, _, _, _)
compact_loop(rs, dead, i, dead_on_end, checks) ==
    IF i >= Len(rs) THEN drop_tail(rs, dead_on_end, checks)
    ELSE
    LET lim == USub(Len(rs), dead_on_end)
    IN  IF lim.o /\ checks THEN [readers |-> rs, panic |-> TRUE]
        ELSE IF i >= lim.v THEN drop_tail(rs, dead_on_end, checks)
        ELSE
        LET isdead == rs[i + 1] \in dead
            loc    == location_on_end(rs, dead_on_end)
        IN  IF isdead /\ ((loc.o /\ checks) \/ loc.v >= Len(rs))
            THEN [readers |-> rs, panic |-> TRUE]
            ELSE
            LET rs2  == IF isdead THEN swap(rs, i, loc.v) ELSE rs
                doe2 == IF isdead THEN dead_on_end + 1 ELSE dead_on_end
                fde  == find_dead_on_end(rs2, dead, doe2)
            IN  IF fde.overflow /\ checks
                THEN [readers |-> rs2, panic |-> TRUE]
                ELSE compact_loop(rs2, dead, i + 1, fde.result, checks)

\* The whole of remove_dangling_readers on the list rs, where dead is the
\* set of readers whose strong_count() is 0.
compact(rs, dead, checks) ==
    LET fde == find_dead_on_end(rs, dead, 0)
    IN  IF fde.overflow /\ checks
        THEN [readers |-> rs, panic |-> TRUE]
        ELSE compact_loop(rs, dead, 0, fde.result, checks)

\* ------------------------------------------------------------ the factory
\* The value the j-th invocation of the factory returns in broadcast k:
\* the j-th clone of the caller's event for send, the j-th fresh default
\* value for send_default, the j-th result of the closure for send_with.
Call(fac, k, j) == [send |-> k, call |-> j]

\* ------------------------------------------------------------ VecDeque
\* A slip in recieve: the event is put at the front of the queue.
push_front(q, e) == <<e>> \o q

\* A reader that keeps the latest event only.
push_latest(q, e) == <<e>>

push_back(q, e) == Append(q, e)
\* A slip in next: the front event is read and left in the queue.
peek_front(q) == [item |-> Head(q), rest |-> q]

pop_front(q) == [item |-> Head(q), rest |-> Tail(q)]

\* A slip in next_back: the event is taken at the front of the queue.
pop_oldest(q) == [item |-> Head(q), rest |-> Tail(q)]

pop_back(q) == [item |-> q[Len(q)], rest |-> SubSeq(q, 1, Len(q) - 1)]

\* --------------------------------------------------------------- Init
Init ==
    /\ readers = [f \in Feeds |-> <<>>]
    /\ created = 0
    /\ handle = [r \in ReaderIds |-> FALSE]
    /\ queue = [r \in ReaderIds |-> <<>>]
    /\ lock = [r \in ReaderIds |-> 0]
    /\ sender = [t \in Senders |-> IdleSender]
    /\ drainer = [d \in Drainers |-> IdleDrainer]
    /\ sent = 0
    /\ born = [r \in ReaderIds |-> 0]
    /\ got = [d \in Drainers |-> EmptyBag]
    /\ panicked = FALSE
    /\ iter = [d \in Drainers |-> NoIter]
    /\ by = [k \in 1..MaxSends |-> NoCall]

\* A &mut borrow of feed f: no send_with (which borrows it shared) runs.
Exclusive(f) == \A t \in Senders : sender[t].pc = "idle" \/ sender[t].feed # f

\* The queue of r after one strong reference to r went away: the Reader and
\* its queue are freed with the last one.
AfterRelease(r, q, stillHeld) == IF stillHeld THEN q ELSE <<>>

\* The record of what was yielded, without the events of a freed reader.
Forget(r, b, stillHeld) ==
    IF stillHeld THEN b
    ELSE [x \in {y \in DOMAIN b : y[1] # r} |-> b[x]]

\* ----------------------------------------------------------- Feed actions
\* Feed::add_reader
add_reader(f) ==
    /\ ~panicked
    /\ Exclusive(f)
    /\ created < MaxReaders
    /\ LET r == created + 1 IN
        /\ created' = r
        /\ readers' = [readers EXCEPT ![f] = Append(@, r)]
        /\ handle' = [handle EXCEPT ![r] = TRUE]
        /\ born' = [born EXCEPT ![r] = sent]
    /\ UNCHANGED <<queue, lock, sender, drainer, sent, got, panicked>>

\* The owner of a reader drops the Arc that add_reader returned.  An
\* iterator borrows the reader, so none exists then.
drop_reader(r) ==
    /\ ~panicked
    /\ handle[r]
    /\ \A d \in Drainers : drainer[d].r # r
    /\ handle' = [handle EXCEPT ![r] = FALSE]
    /\ queue' = [queue EXCEPT ![r] = AfterRelease(r, @, strong_count(r) > 1)]
    /\ got' = [d \in Drainers |-> Forget(r, got[d], strong_count(r) > 1)]
    /\ born' = [born EXCEPT ![r] = IF strong_count(r) > 1 THEN @ ELSE 0]
    /\ UNCHANGED <<readers, created, lock, sender, drainer, sent, panicked>>

\* Feed::remove_dangling_readers, in a build with or without overflow checks.
\* The call borrows the feed mutably and reads the strong count of each
\* reference at most once, so it is taken as one step.  A panic leaves the
\* list as the loop had it.
remove_dangling_readers(f) ==
    /\ ~panicked
    /\ Exclusive(f)
    /\ \E checks \in BOOLEAN :
        LET res == compact(readers[f], Dead, checks) IN
        /\ readers' = [readers EXCEPT ![f] = res.readers]
        /\ panicked' = res.panic
    /\ UNCHANGED <<created, handle, queue, lock, sender, drainer, sent, born,
                   got>>

\* A clone that starts without readers, as Feed::new does.
clone_empty(f, g) ==
    /\ ~panicked
    /\ f \in DOMAIN readers
    /\ g \notin DOMAIN readers
    /\ readers' = readers @@ (g :> <<>>)
    /\ UNCHANGED <<created, handle, queue, lock, sender, drainer, sent, born,
                   got, panicked>>

\* Clone for Feed: Self { readers: self.readers.clone() }, the new feed g a
\* copy of f.  It borrows f shared, as send_with does.
clone(f, g) ==
    /\ ~panicked
    /\ f \in DOMAIN readers
    /\ g \notin DOMAIN readers
    /\ readers' = readers @@ (g :> readers[f])
    /\ UNCHANGED <<created, handle, queue, lock, sender, drainer, sent, born,
                   got, panicked>>

\* ------------------------------------------------------- Feed::send_with
\* Number of references of the list that resolve to a live reader.
LiveCount(rs) == Cardinality({k \in 1..Len(rs) : rs[k] \notin Dead})

\* Entry into send_with(f) with the given closure.
send_with(t, f, fac) ==
    /\ ~panicked
    /\ sender[t].pc = "idle"
    /\ sent < MaxSends
    /\ sent' = sent + 1
    /\ sender' = [sender EXCEPT ![t] =
            [pc |-> "loop", feed |-> f, i |-> 0, send |-> sent + 1, calls |-> 0,
             k0 |-> LiveCount(readers[f]), fac |-> fac, ev |-> <<>>,
             held |-> {drainer[d].r : d \in {e \in Drainers : drainer[e].pc = "iter"}}]]
    /\ UNCHANGED <<readers, created, handle, queue, lock, drainer, born, got,
                   panicked>>

\* Feed::send: self.send_with(|| event.clone())
send(t, f) == send_with(t, f, "clone")

\* Feed::send_default: self.send_with(Default::default)
send_default(t, f) == send_with(t, f, "default")

\* Feed::send_with called with a closure of the caller
send_with_closure(t, f) == send_with(t, f, "closure")

\* A slip in send_with: the reference is used without asking whether the
\* reader is still there.
upgrade_unchecked(r) == TRUE

\* Weak::upgrade on reader r
upgrade(r) == strong_count(r) > 0

\* A send_with that prunes the list as it goes: a reference that does not
\* upgrade is removed on the spot.
send_visit_pruning(t) ==
    LET s == sender[t]
        rs == readers[s.feed]
    IN
    /\ ~panicked
    /\ s.pc = "loop"
    /\ s.i < Len(rs)
    /\ IF upgrade(nth(rs, s.i))
       THEN /\ sender' = [sender EXCEPT ![t].pc = "f"]
            /\ UNCHANGED readers
       ELSE /\ readers' = [readers EXCEPT ![s.feed] =
                    SubSeq(rs, 1, s.i) \o SubSeq(rs, s.i + 2, Len(rs))]
            /\ UNCHANGED sender
    /\ UNCHANGED <<created, handle, queue, lock, drainer, sent, born, got,
                   panicked>>

\* A send_with that locks the queue of the reader before it evaluates the
\* factory, as reader.queue.lock().push_back(f()) would.
send_visit_locking(t) ==
    LET s == sender[t]
        r == nth(readers[s.feed], s.i)
    IN
    /\ ~panicked
    /\ s.pc = "loop"
    /\ s.i < Len(readers[s.feed])
    /\ IF upgrade(r)
       THEN /\ lock[r] = 0
            /\ lock' = [lock EXCEPT ![r] = SenderTid(t)]
            /\ sender' = [sender EXCEPT ![t].pc = "f"]
       ELSE /\ sender' = [sender EXCEPT ![t].i = s.i + 1]
            /\ UNCHANGED lock
    /\ UNCHANGED <<readers, created, handle, queue, drainer, sent, born,
                   got, panicked>>

\* A send_with that evaluates the factory before it asks whether the reader
\* is still there: a stale reference uses up a value.
send_visit_eager(t) ==
    LET s == sender[t] IN
    /\ ~panicked
    /\ s.pc = "loop"
    /\ s.i < Len(readers[s.feed])
    /\ IF upgrade(nth(readers[s.feed], s.i))
       THEN sender' = [sender EXCEPT ![t].pc = "f"]
       ELSE sender' = [sender EXCEPT ![t].i = s.i + 1, ![t].calls = s.calls + 1]
    /\ UNCHANGED <<readers, created, handle, queue, lock, drainer, sent, born,
                   got, panicked>>

\* for reader in &self.readers { if let Some(reader) = reader.upgrade() ...
send_visit(t) ==
    LET s == sender[t] IN
    /\ ~panicked
    /\ s.pc = "loop"
    /\ s.i < Len(readers[s.feed])
    /\ IF upgrade(nth(readers[s.feed], s.i))
       THEN sender' = [sender EXCEPT ![t].pc = "f"]
       ELSE sender' = [sender EXCEPT ![t].i = s.i + 1]
    /\ UNCHANGED <<readers, created, handle, queue, lock, drainer, sent, born,
                   got, panicked>>

\* ... f() ...: the argument of recieve is evaluated before the call
send_factory(t) ==
    LET s == sender[t] IN
    /\ ~panicked
    /\ s.pc = "f"
    /\ sender' = [sender EXCEPT ![t].pc = "recieve",
                                ![t].calls = s.calls + 1,
                                ![t].ev = Call(s.fac, s.send, s.calls + 1)]
    /\ UNCHANGED <<readers, created, handle, queue, lock, drainer, sent, born,
                   got, panicked>>

\* Reader::recieve: let mut queue = self.queue.lock();
recieve_lock(t) ==
    LET s == sender[t]
        r == Upgraded(t)
    IN
    /\ ~panicked
    /\ s.pc = "recieve"
    /\ lock[r] = 0
    /\ lock' = [lock EXCEPT ![r] = SenderTid(t)]
    /\ sender' = [sender EXCEPT ![t].pc = "locked"]
    /\ UNCHANGED <<readers, created, handle, queue, drainer, sent, born, got,
                   panicked>>

\* A recieve that leaks the guard: the event is pushed and the mutex stays
\* locked.
recieve_push_leaking(t) ==
    LET s == sender[t]
        r == Upgraded(t)
    IN
    /\ ~panicked
    /\ s.pc = "locked"
    /\ queue' = [queue EXCEPT ![r] =
            AfterRelease(r, push_back(@, s.ev), strong_count(r) > 1)]
    /\ sender' = [sender EXCEPT ![t].pc = "loop", ![t].i = s.i + 1, ![t].ev = <<>>]
    /\ got' = [d \in Drainers |-> Forget(r, got[d], strong_count(r) > 1)]
    /\ born' = [born EXCEPT ![r] = IF strong_count(r) > 1 THEN @ ELSE 0]
    /\ UNCHANGED <<readers, created, handle, lock, drainer, sent, panicked>>

\* Reader::recieve: queue.push_back(event); the guard is dropped on return,
\* and the upgraded Arc at the end of the loop body.
recieve_push(t) ==
    LET s == sender[t]
        r == Upgraded(t)
    IN
    /\ ~panicked
    /\ s.pc = "locked"
    /\ queue' = [queue EXCEPT ![r] =
            AfterRelease(r, push_back(@, s.ev), strong_count(r) > 1)]
    /\ lock' = [lock EXCEPT ![r] = 0]
    /\ sender' = [sender EXCEPT ![t].pc = "loop", ![t].i = s.i + 1, ![t].ev = <<>>]
    /\ got' = [d \in Drainers |-> Forget(r, got[d], strong_count(r) > 1)]
    /\ born' = [born EXCEPT ![r] = IF strong_count(r) > 1 THEN @ ELSE 0]
    /\ UNCHANGED <<readers, created, handle, drainer, sent, panicked>>

\* The loop of send_with is over and the call returns.
send_return(t) ==
    LET s == sender[t] IN
    /\ ~panicked
    /\ s.pc = "loop"
    /\ s.i >= Len(readers[s.feed])
    /\ sender' = [sender EXCEPT ![t] = IdleSender]
    /\ UNCHANGED <<readers, created, handle, queue, lock, drainer, sent, born,
                   got, panicked>>

\* ----------------------------------------------------- Reader / ReaderIter
\* A thread calls Reader::read on a reader it holds a handle of.
read_call(d, r) ==
    /\ ~panicked
    /\ drainer[d].pc = "idle"
    /\ handle[r]
    /\ drainer' = [drainer EXCEPT ![d] = [pc |-> "read", r |-> r]]
    /\ UNCHANGED <<readers, created, handle, queue, lock, sender, sent, born,
                   got, panicked>>

\* A read that takes the queue without waiting for its mutex.
read_unlocked(d) ==
    LET r == drainer[d].r IN
    /\ ~panicked
    /\ drainer[d].pc = "read"
    /\ lock' = [lock EXCEPT ![r] = DrainerTid(d)]
    /\ drainer' = [drainer EXCEPT ![d].pc = "iter"]
    /\ UNCHANGED <<readers, created, handle, queue, sender, sent, born, got,
                   panicked>>

\* Reader::read: ReaderIter { queue: self.queue.lock() }
read(d) ==
    LET r == drainer[d].r IN
    /\ ~panicked
    /\ drainer[d].pc = "read"
    /\ lock[r] = 0
    /\ lock' = [lock EXCEPT ![r] = DrainerTid(d)]
    /\ drainer' = [drainer EXCEPT ![d].pc = "iter"]
    /\ UNCHANGED <<readers, created, handle, queue, sender, sent, born, got,
                   panicked>>

\* ReaderIter::next: self.queue.pop_front()
next(d) ==
    LET r == drainer[d].r IN
    /\ ~panicked
    /\ drainer[d].pc = "iter"
    /\ IF queue[r] = <<>>
       THEN UNCHANGED <<queue, got>>
       ELSE /\ queue' = [queue EXCEPT ![r] = pop_front(@).rest]
            /\ got' = [got EXCEPT ![d] = @ (+) SetToBag({<<r, pop_front(queue[r]).item>>})]
    /\ UNCHANGED <<readers, created, handle, lock, sender, drainer, sent, born,
                   panicked>>

\* ReaderIter::next_back: self.queue.pop_back()
next_back(d) ==
    LET r == drainer[d].r IN
    /\ ~panicked
    /\ drainer[d].pc = "iter"
    /\ IF queue[r] = <<>>
       THEN UNCHANGED <<queue, got>>
       ELSE /\ queue' = [queue EXCEPT ![r] = pop_back(@).rest]
            /\ got' = [got EXCEPT ![d] = @ (+) SetToBag({<<r, pop_back(queue[r]).item>>})]
    /\ UNCHANGED <<readers, created, handle, lock, sender, drainer, sent, born,
                   panicked>>

\* An iterator that behaves as a Drain does: what it has not yielded is
\* removed from the queue when it is dropped.
drop_iter_draining(d) ==
    LET r == drainer[d].r IN
    /\ ~panicked
    /\ drainer[d].pc = "iter"
    /\ queue' = [queue EXCEPT ![r] = <<>>]
    /\ lock' = [lock EXCEPT ![r] = 0]
    /\ drainer' = [drainer EXCEPT ![d] = IdleDrainer]
    /\ sender' = [t \in Senders |-> [sender[t] EXCEPT !.held = @ \ {r}]]
    /\ UNCHANGED <<readers, created, handle, sent, born, got, panicked>>

\* The ReaderIter is dropped, and its MutexGuard with it.
drop_iter(d) ==
    LET r == drainer[d].r IN
    /\ ~panicked
    /\ drainer[d].pc = "iter"
    /\ lock' = [lock EXCEPT ![r] = 0]
    /\ drainer' = [drainer EXCEPT ![d] = IdleDrainer]
    /\ sender' = [t \in Senders |-> [sender[t] EXCEPT !.held = @ \ {r}]]
    /\ UNCHANGED <<readers, created, handle, queue, sent, born, got, panicked>>

\* ExactSizeIterator::len: self.queue.len()
len(d) == Len(queue[drainer[d].r])

\* The size_hint that Iterator provides when an iterator defines none.
size_hint_default(d) == <<0, -1>>

\* ReaderIter::size_hint: (self.len(), Some(self.len()))
size_hint(d) == <<len(d), len(d)>>

\* The count that Iterator provides when an iterator defines none: it calls
\* next until None and counts, and the events it was yielded are dropped.
count_by_next(d) ==
    LET r == drainer[d].r IN
    /\ ~panicked
    /\ drainer[d].pc = "iter"
    /\ queue' = [queue EXCEPT ![r] = <<>>]
    /\ lock' = [lock EXCEPT ![r] = 0]
    /\ drainer' = [drainer EXCEPT ![d] = IdleDrainer]
    /\ sender' = [t \in Senders |-> [sender[t] EXCEPT !.held = @ \ {r}]]
    /\ UNCHANGED <<readers, created, handle, sent, born, got, panicked>>

\* ReaderIter::count: self.len(); it takes the iterator by value, which is
\* dropped when it returns.
count(d) ==
    LET r == drainer[d].r IN
    /\ ~panicked
    /\ drainer[d].pc = "iter"
    /\ lock' = [lock EXCEPT ![r] = 0]
    /\ drainer' = [drainer EXCEPT ![d] = IdleDrainer]
    /\ sender' = [t \in Senders |-> [sender[t] EXCEPT !.held = @ \ {r}]]
    /\ UNCHANGED <<readers, created, handle, queue, sent, born, got, panicked>>

\* A thread calls Reader::read_with on a reader it holds a handle of.
read_with_call(d, r) ==
    /\ ~panicked
    /\ drainer[d].pc = "idle"
    /\ handle[r]
    /\ drainer' = [drainer EXCEPT ![d] = [pc |-> "read_with", r |-> r]]
    /\ UNCHANGED <<readers, created, handle, queue, lock, sender, sent, born,
                   got, panicked>>

\* Reader::read_with: self.read() ...
read_with(d) ==
    LET r == drainer[d].r IN
    /\ ~panicked
    /\ drainer[d].pc = "read_with"
    /\ lock[r] = 0
    /\ lock' = [lock EXCEPT ![r] = DrainerTid(d)]
    /\ drainer' = [drainer EXCEPT ![d].pc = "for_each"]
    /\ UNCHANGED <<readers, created, handle, queue, sender, sent, born, got,
                   panicked>>

\* A for_each that takes the events from the back of the queue.
for_each_rev(d) ==
    LET r == drainer[d].r IN
    /\ ~panicked
    /\ drainer[d].pc = "for_each"
    /\ IF queue[r] = <<>>
       THEN /\ lock' = [lock EXCEPT ![r] = 0]
            /\ drainer' = [drainer EXCEPT ![d] = IdleDrainer]
            /\ sender' = [t \in Senders |-> [sender[t] EXCEPT !.held = @ \ {r}]]
            /\ UNCHANGED <<queue, got>>
       ELSE /\ queue' = [queue EXCEPT ![r] = pop_back(@).rest]
            /\ got' = [got EXCEPT ![d] = @ (+) SetToBag({<<r, pop_back(queue[r]).item>>})]
            /\ UNCHANGED <<lock, drainer, sender>>
    /\ UNCHANGED <<readers, created, handle, sent, born, panicked>>

\* ... .for_each(f): one turn of the loop.  It calls next; the consumer is
\* invoked with the event it yields; on None the loop ends, the iterator is
\* dropped and read_with returns.
for_each(d) ==
    LET r == drainer[d].r IN
    /\ ~panicked
    /\ drainer[d].pc = "for_each"
    /\ IF queue[r] = <<>>
       THEN /\ lock' = [lock EXCEPT ![r] = 0]
            /\ drainer' = [drainer EXCEPT ![d] = IdleDrainer]
            /\ sender' = [t \in Senders |-> [sender[t] EXCEPT !.held = @ \ {r}]]
            /\ UNCHANGED <<queue, got>>
       ELSE /\ queue' = [queue EXCEPT ![r] = pop_front(@).rest]
            /\ got' = [got EXCEPT ![d] = @ (+) SetToBag({<<r, pop_front(queue[r]).item>>})]
            /\ UNCHANGED <<lock, drainer, sender>>
    /\ UNCHANGED <<readers, created, handle, sent, born, panicked>>

\* ------------------------------------------------------------ the history
\* The events thread d is yielded in the step.
YieldedNow(d) ==
    {x \in DOMAIN got'[d] : CopiesIn(x, got'[d]) > CopiesIn(x, got[d])}

\* read() or read_with() has returned an iterator to thread d: its life
\* begins with the queue it found.
note_read(d) ==
    /\ iter' = [iter EXCEPT ![d] = [NoIter EXCEPT !.q0 = queue[drainer[d].r]]]
    /\ UNCHANGED by

\* The iterator of thread d was asked for an event at one end of the queue:
\* what it yielded, or that it returned None.
note_yield(d, end) ==
    /\ IF drainer'[d].pc = "idle" THEN iter' = [iter EXCEPT ![d] = NoIter]
       ELSE IF YieldedNow(d) = {} THEN iter' = [iter EXCEPT ![d].fused = TRUE]
       ELSE iter' = [iter EXCEPT ![d].out =
                Append(@, [end |-> end,
                           item |-> (CHOOSE x \in YieldedNow(d) : TRUE)[2]])]
    /\ UNCHANGED by

\* The iterator of thread d is gone.
note_drop(d) ==
    /\ iter' = [iter EXCEPT ![d] = NoIter]
    /\ UNCHANGED by

\* Thread t has called send_with.
note_send(t) ==
    /\ by' = [by EXCEPT ![sent'] = [thread |-> t, feed |-> sender'[t].feed]]
    /\ UNCHANGED iter

\* count() returned to thread d.
note_count(d) ==
    /\ iter' = [iter EXCEPT ![d] = [NoIter EXCEPT !.ret = len(d)]]
    /\ UNCHANGED by

\* ------------------------------------------------------------ the program
\* One thread owns the feed and broadcasts, one thread drains, and the
\* owners of the reader handles drop them at any time.
Next ==
    \/ \E f \in Feeds : created < MaxSubscribers /\ add_reader(f) /\ UNCHANGED history
    \/ \E r \in ReaderIds : drop_reader(r) /\ UNCHANGED history
    \/ \E f \in Feeds : remove_dangling_readers(f) /\ UNCHANGED history
    \/ \E f \in Feeds : send(1, f) /\ UNCHANGED history
    \/ \E f \in Feeds : send_default(1, f) /\ UNCHANGED history
    \/ \E f \in Feeds : send_with_closure(1, f) /\ UNCHANGED history
    \/ send_visit(1) /\ UNCHANGED history
    \/ send_factory(1) /\ UNCHANGED history
    \/ recieve_lock(1) /\ UNCHANGED history
    \/ recieve_push(1) /\ UNCHANGED history
    \/ send_return(1) /\ UNCHANGED history
    \/ \E r \in ReaderIds : read_call(1, r) /\ UNCHANGED history
    \/ read(1) /\ UNCHANGED history
    \/ next(1) /\ UNCHANGED history
    \/ next_back(1) /\ UNCHANGED history
    \/ drop_iter(1) /\ UNCHANGED history

Spec == Init /\ [][Next]_vars

\* The owner of a feed adds readers and compacts the list while the owners
\* of the readers drop them; nothing is broadcast.
NextCompact ==
    \/ \E f \in Feeds : add_reader(f) /\ UNCHANGED history
    \/ \E r \in ReaderIds : drop_reader(r) /\ UNCHANGED history
    \/ \E f \in Feeds : remove_dangling_readers(f) /\ UNCHANGED history

SpecCompact == Init /\ [][NextCompact]_vars

\* One thread broadcasts with send while the threads of Drainers drain the
\* readers they share.
NextShared ==
    \/ \E f \in Feeds : created < MaxSubscribers /\ add_reader(f) /\ UNCHANGED history
    \/ \E f \in Feeds : send(1, f) /\ UNCHANGED history
    \/ send_visit(1) /\ UNCHANGED history
    \/ send_factory(1) /\ UNCHANGED history
    \/ recieve_lock(1) /\ UNCHANGED history
    \/ recieve_push(1) /\ UNCHANGED history
    \/ send_return(1) /\ UNCHANGED history
    \/ \E d \in Drainers, r \in ReaderIds : read_call(d, r) /\ UNCHANGED history
    \/ \E d \in Drainers : read(d) /\ UNCHANGED history
    \/ \E d \in Drainers : next(d) /\ UNCHANGED history
    \/ \E d \in Drainers : drop_iter(d) /\ UNCHANGED history

SpecShared == Init /\ [][NextShared]_vars

\* One thread broadcasts with send while another reads a reader in every
\* way there is: with an iterator it asks at either end, counts or drops,
\* and with read_with.
NextIter ==
    \/ \E f \in Feeds : created < MaxSubscribers /\ add_reader(f) /\ UNCHANGED history
    \/ \E f \in Feeds : send(1, f) /\ UNCHANGED history
    \/ send_visit(1) /\ UNCHANGED history
    \/ send_factory(1) /\ UNCHANGED history
    \/ recieve_lock(1) /\ UNCHANGED history
    \/ recieve_push(1) /\ UNCHANGED history
    \/ send_return(1) /\ UNCHANGED history
    \/ \E r \in ReaderIds : read_call(1, r) /\ UNCHANGED history
    \/ read(1) /\ note_read(1)
    \/ next(1) /\ note_yield(1, "front")
    \/ next_back(1) /\ note_yield(1, "back")
    \/ count(1) /\ note_count(1)
    \/ drop_iter(1) /\ note_drop(1)
    \/ \E r \in ReaderIds : read_with_call(1, r) /\ UNCHANGED history
    \/ read_with(1) /\ note_read(1)
    \/ for_each(1) /\ note_yield(1, "front")

SpecIter == Init /\ [][NextIter]_vars

\* The owner of a feed clones it, adds readers to both feeds and compacts
\* both, and broadcasts on the first, while the owners of the readers drop
\* them.
NextClone ==
    \/ \E f \in Feeds, g \in Clones : clone(f, g) /\ UNCHANGED history
    \/ \E f \in DOMAIN readers : created < MaxSubscribers /\ add_reader(f) /\ UNCHANGED history
    \/ \E r \in ReaderIds : drop_reader(r) /\ UNCHANGED history
    \/ \E f \in DOMAIN readers : remove_dangling_readers(f) /\ UNCHANGED history
    \/ \E f \in Feeds : send(1, f) /\ UNCHANGED history
    \/ send_visit(1) /\ UNCHANGED history
    \/ send_factory(1) /\ UNCHANGED history
    \/ recieve_lock(1) /\ UNCHANGED history
    \/ recieve_push(1) /\ UNCHANGED history
    \/ send_return(1) /\ UNCHANGED history

SpecClone == Init /\ [][NextClone]_vars

\* Two threads broadcast at the same time, on the same feed or on a feed
\* and its clone; nothing is read.
NextTwo ==
    \/ \E f \in Feeds, g \in Clones : clone(f, g) /\ UNCHANGED history
    \/ \E f \in DOMAIN readers : created < MaxSubscribers /\ add_reader(f) /\ UNCHANGED history
    \/ \E t \in Senders, f \in DOMAIN readers : send(t, f) /\ note_send(t)
    \/ \E t \in Senders : send_visit(t) /\ UNCHANGED history
    \/ \E t \in Senders : send_factory(t) /\ UNCHANGED history
    \/ \E t \in Senders : recieve_lock(t) /\ UNCHANGED history
    \/ \E t \in Senders : recieve_push(t) /\ UNCHANGED history
    \/ \E t \in Senders : send_return(t) /\ UNCHANGED history

SpecTwo == Init /\ [][NextTwo]_vars

\* A feed is given its readers, the owner of the first reader drops it, the
\* feed is cloned and the clone compacted; then the feed and the clone
\* broadcast, each in a thread of its own, while a third thread takes and
\* drops iterators.
NextLive ==
    \/ \E f \in Feeds : DOMAIN readers = Feeds /\ created <= MaxSubscribers /\ add_reader(f) /\ UNCHANGED history
    \/ DOMAIN readers = Feeds /\ drop_reader(1) /\ UNCHANGED history
    \/ \E f \in Feeds, g \in Clones : sent = 0 /\ clone(f, g) /\ UNCHANGED history
    \/ \E g \in Clones \cap DOMAIN readers : sent = 0 /\ remove_dangling_readers(g) /\ UNCHANGED history
    \/ \E t \in Senders \cap DOMAIN readers : send(t, t) /\ UNCHANGED history
    \/ \E t \in Senders : send_visit(t) /\ UNCHANGED history
    \/ \E t \in Senders : send_factory(t) /\ UNCHANGED history
    \/ \E t \in Senders : recieve_lock(t) /\ UNCHANGED history
    \/ \E t \in Senders : recieve_push(t) /\ UNCHANGED history
    \/ \E t \in Senders : send_return(t) /\ UNCHANGED history
    \/ \E r \in ReaderIds : read_call(1, r) /\ UNCHANGED history
    \/ read(1) /\ UNCHANGED history
    \/ drop_iter(1) /\ UNCHANGED history

\* Every thread goes on running; the mutex is fair, so a thread that waits
\* for a lock that is free again and again gets it; and whoever holds an
\* iterator drops it.
FairLive ==
    /\ \A t \in Senders :
        /\ WF_vars(send_visit(t) /\ UNCHANGED history)
        /\ WF_vars(send_factory(t) /\ UNCHANGED history)
        /\ SF_vars(recieve_lock(t) /\ UNCHANGED history)
        /\ WF_vars(recieve_push(t) /\ UNCHANGED history)
        /\ WF_vars(send_return(t) /\ UNCHANGED history)
    /\ SF_vars(read(1) /\ UNCHANGED history)
    /\ WF_vars(drop_iter(1) /\ UNCHANGED history)

SpecLive == Init /\ [][NextLive]_vars /\ FairLive

\* ======================================================================
\* Properties
\* ======================================================================
\* The live readers a list refers to, and whether it holds a dangling
\* reference.
LiveRefs(rs) == {rs[k] : k \in {j \in 1..Len(rs) : rs[j] \notin Dead}}
Dangling(rs) == \E k \in 1..Len(rs) : rs[k] \in Dead

\* What the drainers were yielded from reader r, and the calls of send_with
\* they stem from.
Yielded(r) == {x \in UNION {DOMAIN got[d] : d \in Drainers} : x[1] = r}
Taken(r) == {x[2].send : x \in Yielded(r)}

\* How often the threads of D were yielded the pair x, all together.
RECURSIVE Copies(_, _)
Copies(D, x) ==
    IF D = {} THEN 0
    ELSE LET d == CHOOSE e \in D : TRUE
         IN  CopiesIn(x, got[d]) + Copies(D \ {d}, x)

\* The calls of send_with whose event is in the queue of r.
Queued(r) == {queue[r][n].send : n \in 1..Len(queue[r])}

\* The position of reader r in a list, 0 when it is not listed.
Position(rs, r) ==
    IF \E k \in 1..Len(rs) : rs[k] = r
    THEN CHOOSE k \in 1..Len(rs) : rs[k] = r
    ELSE 0

\* The calls of send_with on feed f that were due to reader r and have
\* gone past it: those that began after add_reader created r, except a
\* call that is still on its way to r's place in the list.
Delivered(f, r) ==
    {k \in (born[r] + 1)..sent :
        \A t \in Senders :
            (sender[t].pc # "idle" /\ sender[t].send = k) =>
                /\ Position(readers[f], r) # 0
                /\ sender[t].i >= Position(readers[f], r)}

\* C1: the queue of every live reader holds exactly the events broadcast
\* since add_reader created it that it has not yielded, in the order they
\* were sent; none is lost, duplicated or yielded twice.
C1_QueueHoldsUnreadEventsInOrder ==
    \A f \in Feeds : \A r \in 1..created :
        handle[r] =>
            /\ \A n \in 1..(Len(queue[r]) - 1) :
                    queue[r][n].send < queue[r][n + 1].send
            /\ Queued(r) = Delivered(f, r) \ Taken(r)
            /\ Taken(r) \subseteq Delivered(f, r)

\* C1 witness: reader 1 took part in the first broadcast and was compacted
\* away before the second; reader 2 has yielded the first event and holds
\* the second.
C1_Witness ==
    /\ sender[1].pc = "loop" /\ sender[1].send = 2 /\ sender[1].i = 1
    /\ readers[1] = <<2>>
    /\ handle[2]
    /\ queue[2] = <<[send |-> 2, call |-> 1]>>
    /\ Yielded(2) = {<<2, [send |-> 1, call |-> 2]>>}

\* C2: a call of send_with during which no reader is dropped invokes the
\* factory once per live reference and never for a stale one: K times for
\* K live and D dead references, never when there is no live one.
C2_FactoryOncePerLiveReader ==
    \A t \in Senders :
        LET s == sender[t] IN
        s.pc # "idle" =>
            /\ s.calls <= s.k0
            /\ (/\ s.pc = "loop"
                /\ s.i = Len(readers[s.feed])
                /\ LiveCount(readers[s.feed]) = s.k0) => s.calls = s.k0

\* C2 witness: the loop of a send_with is over a list of one dead and one
\* live reference, and the factory ran once.
C2_Witness ==
    /\ sender[1].pc = "loop"
    /\ sender[1].i = 2 /\ Len(readers[1]) = 2
    /\ LiveCount(readers[1]) = 1 /\ sender[1].k0 = 1
    /\ sender[1].calls = 1

\* C3: one call of remove_dangling_readers on a list of K live and D dead
\* references, in any arrangement, leaves exactly K references, none of
\* them dangling.
C3_CompactionRemovesEveryDangling ==
    [][\A f \in Feeds :
        (remove_dangling_readers(f) /\ ~panicked') =>
            /\ Len(readers'[f]) = LiveCount(readers[f])
            /\ ~Dangling(readers[f])']_vars

\* C4: remove_dangling_readers never removes a reference to a live reader:
\* the live readers the list refers to are the same before and after the
\* call, each of them still listed once.
C4_CompactionKeepsLiveReaders ==
    [][\A f \in Feeds :
        remove_dangling_readers(f) =>
            /\ LiveRefs(readers[f])' = LiveRefs(readers[f])
            /\ LiveCount(readers[f])' = LiveCount(readers[f])]_vars

\* C4 witness: a compaction moved a live reader forward over another live
\* one and dropped a reference.
C4_Witness ==
    \E f \in Feeds :
        /\ Len(readers[f]) >= 2
        /\ Len(readers[f]) < created
        /\ readers[f][1] > readers[f][2]
        /\ {readers[f][1], readers[f][2]} \cap Dead = {}

\* C5: a second call of remove_dangling_readers directly after a first one
\* leaves the list as the first call left it.
C5_CompactionIdempotent ==
    [][\A f \in Feeds :
        (remove_dangling_readers(f) /\ ~panicked') =>
            \A checks \in BOOLEAN :
                compact(readers'[f], Dead', checks).readers = readers'[f]]_vars

\* C6: remove_dangling_readers never panics: no subtraction it evaluates
\* underflows and no index leaves the list.
C6_CompactionNeverPanics == ~panicked

\* C7: with two threads draining a shared reader while a third broadcasts,
\* every event delivered to the reader is either still queued or was
\* yielded exactly once, to one thread; none is lost and none yielded twice.
C7_EachEventYieldedOnce ==
    \A f \in Feeds : \A r \in 1..created :
        handle[r] =>
            /\ \A x \in Yielded(r) : Copies(Drainers, x) = 1
            /\ Cardinality(Yielded(r)) = Cardinality(Taken(r))
            /\ Taken(r) \cup Queued(r) = Delivered(f, r)
            /\ Taken(r) \cap Queued(r) = {}
            /\ Cardinality(Queued(r)) = Len(queue[r])

\* C7 witness: both broadcasts are over, each draining thread was yielded
\* one of the two events of reader 1 and its queue is empty.
C7_Witness ==
    /\ sender[1].pc = "idle" /\ sent = MaxSends
    /\ handle[1] /\ born[1] = 0 /\ queue[1] = <<>>
    /\ \E x \in DOMAIN got[1] : x[1] = 1
    /\ \E x \in DOMAIN got[2] : x[1] = 1
    /\ Cardinality(Yielded(1)) = MaxSends

\* The lock of reader r is held by an iterator.
HeldByIter(r) == \E d \in Drainers : drainer[d].pc = "iter" /\ drainer[d].r = r

\* While an iterator on r exists it holds r's lock, so there is no second
\* iterator on r and no recieve inside r's queue.
IterHoldsLock ==
    \A d \in Drainers :
        drainer[d].pc = "iter" =>
            /\ lock[drainer[d].r] = DrainerTid(d)
            /\ \A e \in Drainers \ {d} :
                    ~(drainer[e].pc = "iter" /\ drainer[e].r = drainer[d].r)
            /\ \A t \in Senders :
                    ~(sender[t].pc = "locked" /\ Upgraded(t) = drainer[d].r)

\* C8: a ReaderIter holds the lock of its reader's queue from read() until
\* it is dropped: there is no other iterator on the reader and no recieve
\* in its queue meanwhile, the queue changes only by the iterator's own
\* next and next_back, and read() does not return while a recieve holds
\* the lock.
C8_IteratorHoldsLock ==
    /\ []IterHoldsLock
    /\ [][\A d \in Drainers :
            /\ (drainer[d].pc = "iter" /\ queue'[drainer[d].r] # queue[drainer[d].r])
                    => (next(d) \/ next_back(d))
            /\ read(d) => \A t \in Senders :
                    ~(sender[t].pc = "locked" /\ Upgraded(t) = drainer[d].r)]_vars

\* C8 witness: thread 1 holds an iterator on reader 1 while thread 2 is
\* inside read() on reader 1 and a recieve on reader 1 waits for the lock.
C8_Witness ==
    /\ drainer[1] = [pc |-> "iter", r |-> 1]
    /\ drainer[2] = [pc |-> "read", r |-> 1]
    /\ sender[1].pc = "recieve" /\ Upgraded(1) = 1

\* The calls of send_with whose event reader r was given.
Given(r) == Queued(r) \cup Taken(r)

\* A send_with of thread t waits in recieve for the lock of the reader it
\* is visiting, which an iterator has held since before the call began.
StalledOnIter(t) == sender[t].pc = "recieve" /\ Upgraded(t) \in sender[t].held

\* C9 as claimed: an iterator held on one reader stalls delivery to that
\* reader only: while a send_with that began under the iterator waits for
\* it, every other live reader of the feed, wherever it is stored, has
\* been given the event.
C9_OtherReadersNeverWait ==
    \A t \in Senders :
        StalledOnIter(t) =>
            \A r \in LiveRefs(readers[sender[t].feed]) \ {Upgraded(t)} :
                sender[t].send \in Given(r)

\* C9 as amended: while a send_with that began under the iterator held on
\* one reader waits for it, the live readers stored before that reader
\* have been given the event, and those stored after it have not: they
\* wait with it.
C9_OnlyEarlierReadersDoNotWait ==
    \A t \in Senders :
        StalledOnIter(t) =>
            LET rs == readers[sender[t].feed]
                p  == Position(rs, Upgraded(t))
            IN  \A r \in LiveRefs(rs) \ {Upgraded(t)} :
                    (Position(rs, r) < p) <=> (sender[t].send \in Given(r))

\* C9 witness: a send waits for the iterator held on reader 2, stored
\* second; reader 1, stored first, has been given the event.
C9_Witness ==
    /\ StalledOnIter(1) /\ Upgraded(1) = 2
    /\ readers[1] = <<1, 2>>
    /\ sender[1].send \in Given(1)

\* C10: the reference list of a feed changes only when add_reader appends
\* one entry to it or remove_dangling_readers runs: no step of send_with,
\* send or send_default touches it.
C10_ListChangesOnlyByAddAndCompaction ==
    [][\A f \in Feeds :
        \/ readers'[f] = readers[f]
        \/ add_reader(f) /\ readers'[f] = Append(readers[f], created + 1)
        \/ remove_dangling_readers(f)]_vars

\* C10 witness: a broadcast has returned that skipped the stale first
\* reference and delivered to the second, and the stale one is still listed.
C10_Witness ==
    /\ sender[1].pc = "idle"
    /\ Len(readers[1]) = 2
    /\ readers[1][1] \in Dead
    /\ handle[readers[1][2]]
    /\ \E n \in 1..Len(queue[readers[1][2]]) : queue[readers[1][2]][n].call = 1

\* The thread holds an iterator, from read() or inside read_with().
Iterating(d) == drainer[d].pc \in {"iter", "for_each"}

\* The events an iterator yielded at one end of the queue, in the order it
\* yielded them.
RECURSIVE OutAt(_, _)
OutAt(out, end) ==
    IF out = <<>> THEN <<>>
    ELSE IF Head(out).end = end
         THEN <<Head(out).item>> \o OutAt(Tail(out), end)
         ELSE OutAt(Tail(out), end)

\* A sequence back to front.
Reverse(q) == [n \in 1..Len(q) |-> q[Len(q) + 1 - n]]

\* C11: on one iterator over a queue that held e1..en, oldest first, the
\* calls of next yield e1, e2, ... and the calls of next_back yield en,
\* en-1, ..., however they are mixed; the two never overlap, and what is
\* left in the queue is what lies between them.
C11_NextOldestNextBackNewest ==
    \A d \in Drainers :
        Iterating(d) =>
            LET q0 == iter[d].q0
                fr == OutAt(iter[d].out, "front")
                bk == OutAt(iter[d].out, "back")
            IN  /\ \A n \in 1..(Len(q0) - 1) : q0[n].send < q0[n + 1].send
                /\ Len(fr) + Len(bk) <= Len(q0)
                /\ fr = SubSeq(q0, 1, Len(fr))
                /\ bk = Reverse(SubSeq(q0, Len(q0) - Len(bk) + 1, Len(q0)))
                /\ queue[drainer[d].r] = SubSeq(q0, Len(fr) + 1, Len(q0) - Len(bk))

\* C11 witness: an iterator over two events was asked at the back, then at
\* the front, then again, and has yielded the newer, the older and None.
C11_Witness ==
    /\ drainer[1].pc = "iter"
    /\ Len(iter[1].q0) = 2
    /\ iter[1].out = <<[end |-> "back", item |-> iter[1].q0[2]],
                       [end |-> "front", item |-> iter[1].q0[1]]>>
    /\ iter[1].fused

\* The events of a queue.
Events(q) == {q[n] : n \in 1..Len(q)}

\* A queue without the events of a set, the others in their order.
RECURSIVE Without(_, _)
Without(q, E) ==
    IF q = <<>> THEN <<>>
    ELSE IF Head(q) \in E THEN Without(Tail(q), E)
         ELSE <<Head(q)>> \o Without(Tail(q), E)

\* What the iterator of thread d has yielded.
OutOf(d) == {iter[d].out[n].item : n \in 1..Len(iter[d].out)}

\* While an iterator lives, the queue is the queue it found without what
\* it yielded; nothing that was yielded is in a queue or was yielded twice.
UnyieldedStay ==
    /\ \A d \in Drainers :
            Iterating(d) =>
                queue[drainer[d].r] = Without(iter[d].q0, OutOf(d))
    /\ \A d \in Drainers : \A x \in DOMAIN got[d] :
            /\ Copies(Drainers, x) = 1
            /\ x[2] \notin Events(queue[x[1]])

\* C12: an event leaves the queue exactly when the iterator yields it.  An
\* iterator dropped after yielding some of the events it found leaves the
\* others in the queue in their order; until the next read() the queue only
\* grows at its back, so that read starts from them; and no event is
\* yielded a second time.
C12_RemovedExactlyWhenYielded ==
    /\ []UnyieldedStay
    /\ [][\A r \in ReaderIds :
            /\ Events(queue[r]) \ Events(queue'[r]) =
                    {x[2] : x \in {y \in UNION {YieldedNow(d) : d \in Drainers} :
                                        y[1] = r}}
            /\ queue'[r] # queue[r] =>
                    \/ \E d \in Drainers : Iterating(d) /\ drainer[d].r = r
                    \/ /\ Len(queue'[r]) = Len(queue[r]) + 1
                       /\ SubSeq(queue'[r], 1, Len(queue[r])) = queue[r]]_vars

\* C12 witness: an iterator was dropped after it yielded the first of two
\* events, and the next read() has found the second one alone.
C12_Witness ==
    /\ drainer[1] = [pc |-> "iter", r |-> 1]
    /\ iter[1].q0 = <<[send |-> 2, call |-> 1]>>
    /\ iter[1].out = <<>>
    /\ <<1, [send |-> 1, call |-> 1]>> \in DOMAIN got[1]
    /\ sender[1].pc = "idle" /\ sent = 2

\* What len() and size_hint() return on a living iterator: the number of
\* events it found less the number it yielded, and 0 after a None.
ExactLen ==
    \A d \in Drainers :
        Iterating(d) =>
            /\ len(d) = Len(iter[d].q0) - Len(iter[d].out)
            /\ size_hint(d) = <<len(d), len(d)>>
            /\ iter[d].fused => len(d) = 0

\* C13: len() and both bounds of size_hint() are, all through the life of
\* an iterator, the number of events left in the locked queue; a next or
\* next_back that yields an event lowers them by exactly one and nothing
\* else changes them; after a None every next and next_back returns None
\* and len() stays 0.
C13_ExactLenAndFused ==
    /\ []ExactLen
    /\ [][\A d \in Drainers :
            (Iterating(d) /\ Iterating(d)') =>
                /\ YieldedNow(d) # {} => len(d)' = len(d) - 1
                /\ YieldedNow(d) = {} => len(d)' = len(d)
                /\ iter[d].fused =>
                        /\ YieldedNow(d) = {}
                        /\ len(d)' = 0
                        /\ iter'[d].fused]_vars

\* C13 witness: an iterator over two events yielded both at the front and
\* then returned None.
C13_Witness ==
    /\ drainer[1].pc = "iter"
    /\ Len(iter[1].q0) = 2
    /\ OutAt(iter[1].out, "front") = iter[1].q0
    /\ iter[1].fused
    /\ len(1) = 0

\* The readers a list refers to.
Listed(rs) == {rs[k] : k \in 1..Len(rs)}

\* C14: a clone starts with a copy of the reference list of the feed it is
\* made of; afterwards add_reader and remove_dangling_readers on one feed
\* leave the list of every other feed as it was; and a reader that only the
\* clone refers to gets nothing from a send on the original.
C14_CloneIsIndependent ==
    /\ [](\A r \in 1..created :
            (handle[r] /\ r \notin Listed(readers[1])) => queue[r] = <<>>)
    /\ [][\A f \in DOMAIN readers :
            /\ \A g \in Clones :
                    clone(f, g) =>
                        (readers'[g] = readers[f] /\ readers'[f] = readers[f])
            /\ (add_reader(f) \/ remove_dangling_readers(f)) =>
                    /\ DOMAIN readers' = DOMAIN readers
                    /\ \A g \in DOMAIN readers \ {f} : readers'[g] = readers[g]
            /\ add_reader(f) => readers'[f] = Append(readers[f], created + 1)]_vars

\* C14 witness: the clone was made of a feed with reader 1 and then got
\* reader 2; a send on the original has returned, reader 1 holds its event
\* and reader 2 holds nothing.
C14_Witness ==
    /\ DOMAIN readers = {1, 2}
    /\ readers[1] = <<1>> /\ readers[2] = <<1, 2>>
    /\ handle[1] /\ handle[2]
    /\ sender[1].pc = "idle" /\ sent = 1 /\ born[2] = 0
    /\ Len(queue[1]) = 1 /\ queue[2] = <<>>

\* The events an iterator has passed on, in the order it yielded them.
Items(out) == [n \in 1..Len(out) |-> out[n].item]

\* Inside read_with the thread holds the reader's lock all the time, and
\* the consumer has been invoked with the oldest events found, in order.
ForEachInOrder ==
    \A d \in Drainers :
        drainer[d].pc = "for_each" =>
            /\ lock[drainer[d].r] = DrainerTid(d)
            /\ Len(iter[d].out) <= Len(iter[d].q0)
            /\ Items(iter[d].out) = SubSeq(iter[d].q0, 1, Len(iter[d].out))

\* An iterator from read() that was asked at the front only, until None.
ExhaustedForward(d) ==
    /\ drainer[d].pc = "iter"
    /\ iter[d].fused
    /\ OutAt(iter[d].out, "front") = Items(iter[d].out)

\* C15: read_with takes the lock once and invokes the consumer once for
\* each event it finds in the queue, oldest first, and for nothing else;
\* the queue is empty when it releases the lock; on an empty queue the
\* consumer is not invoked.  That is what an iterator from read() yields
\* when it is asked with next until None.
C15_ReadWithIsExhaustingRead ==
    /\ []ForEachInOrder
    /\ [](\A d \in Drainers :
            ExhaustedForward(d) =>
                /\ Items(iter[d].out) = iter[d].q0
                /\ queue[drainer[d].r] = <<>>)
    /\ [][\A d \in Drainers :
            (drainer[d].pc = "for_each" /\ drainer'[d].pc # "for_each") =>
                /\ Items(iter[d].out) = iter[d].q0
                /\ got'[d] = got[d]
                /\ queue[drainer[d].r] = <<>>
                /\ queue'[drainer[d].r] = <<>>
                /\ lock'[drainer[d].r] = 0]_vars

\* C15 witness: read_with found two events and has invoked the consumer
\* with both; the turn of the loop that ends it is next.
C15_Witness ==
    /\ drainer[1].pc = "for_each"
    /\ Len(iter[1].q0) = 2
    /\ Len(iter[1].out) = 2
    /\ queue[drainer[1].r] = <<>>

\* The number of live references among the first p of a list.
Rank(rs, p) == Cardinality({k \in 1..p : rs[k] \notin Dead})

\* The events of the call of send_with numbered k that reader r was given,
\* queued or yielded.
EventsOf(r, k) ==
    {e \in Events(queue[r]) : e.send = k} \cup
    {x[2] : x \in {y \in Yielded(r) : y[2].send = k}}

\* The list is in the order add_reader made it.
InAddOrder(rs) == \A k \in 1..(Len(rs) - 1) : rs[k] < rs[k + 1]

\* C16: in a call of send_with during which no reader is dropped, the
\* readers are visited in the order of the list, a stale reference uses up
\* no value of the factory, and the k-th value is appended to the k-th live
\* reader of the list; that is the k-th live reader in add_reader order
\* while the list is in that order.
C16_KthValueToKthLiveReader ==
    \A t \in Senders :
        LET s  == sender[t]
            rs == readers[s.feed]
        IN  (s.pc # "idle" /\ LiveCount(rs) = s.k0) =>
                /\ s.pc \in {"loop", "f"} => s.calls = Rank(rs, s.i)
                /\ s.pc \in {"recieve", "locked"} =>
                        /\ s.calls = Rank(rs, s.i + 1)
                        /\ s.ev.call = Rank(rs, s.i + 1)
                /\ \A p \in 1..Len(rs) : \A e \in EventsOf(rs[p], s.send) :
                        /\ p <= s.i
                        /\ rs[p] \notin Dead
                        /\ e.call = Rank(rs, p)
                        /\ InAddOrder(rs) =>
                            e.call = Cardinality({r \in Listed(rs) \ Dead : r <= rs[p]})

\* C16 witness: the first send gave its first value to reader 1 and its
\* second to reader 2; reader 1 was dropped; the second send has skipped
\* the stale reference and given its first value to reader 2.
C16_Witness ==
    /\ sender[1].pc = "loop" /\ sender[1].send = 2 /\ sender[1].i = 2
    /\ readers[1] = <<1, 2>>
    /\ 1 \in Dead
    /\ queue[2] = <<[send |-> 1, call |-> 2], [send |-> 2, call |-> 1]>>

\* The calls of send_with that were due to reader r and have gone past it:
\* those made after add_reader created r on a feed whose list refers to r,
\* except a call that is still on its way to r's place in that list.
Due(r) ==
    {k \in (born[r] + 1)..sent :
        LET rs == readers[by[k].feed]
            s  == sender[by[k].thread]
        IN  /\ r \in Listed(rs)
            /\ (s.pc # "idle" /\ s.send = k) => s.i >= Position(rs, r)}

C18_SendAndReadReturn ==
    /\ \A t \in Senders : []<>(sender[t].pc = "idle" \/ panicked)
    /\ \A d \in Drainers : []<>(drainer[d].pc # "read" \/ panicked)

\* C18 witness: the list of the feed is [1, 2, 3] with reader 1 dropped,
\* that of the clone [3, 2]; the send on the feed is inside reader 2's
\* queue and the send on the clone inside reader 3's, each about to go on
\* to the reader the other one holds.
C18_Witness ==
    /\ DOMAIN readers = {1, 2}
    /\ readers[1] = <<1, 2, 3>> /\ readers[2] = <<3, 2>>
    /\ 1 \in Dead
    /\ sender[1].pc = "locked" /\ Upgraded(1) = 2
    /\ sender[2].pc = "locked" /\ Upgraded(2) = 3

\* The readers whose queue thread t has locked inside send_with.
LocksOf(t) == {r \in ReaderIds : lock[r] = SenderTid(t)}

\* C19: a thread inside send_with holds the lock of at most one reader, and
\* that only between the lock() and the return of recieve: it holds none
\* while it looks at a reference, while the factory runs or while it waits
\* for a lock, so a factory that calls read() on a reader of the feed, the
\* one about to receive included, is not kept out by its own send_with.
C19_OneLockNoneInFactory ==
    \A t \in Senders :
        /\ Cardinality(LocksOf(t)) <= 1
        /\ sender[t].pc = "locked" => LocksOf(t) = {Upgraded(t)}
        /\ sender[t].pc # "locked" => LocksOf(t) = {}
        /\ sender[t].pc = "f" =>
                \A r \in Listed(readers[sender[t].feed]) : lock[r] # SenderTid(t)

\* C19 witness: thread 1 has delivered to reader 1 and its factory runs for
\* reader 2, while thread 2 is inside the queue of reader 1.
C19_Witness ==
    /\ sender[1].pc = "f" /\ sender[1].i = 1 /\ Upgraded(1) = 2
    /\ sender[1].send \in Queued(1)
    /\ sender[2].pc = "locked" /\ Upgraded(2) = 1
    /\ LocksOf(1) = {} /\ LocksOf(2) = {1}

\* C20: count() on an iterator returns the number of events in the queue
\* and takes none of them: the queue of the reader is after read().count()
\* what it was before, nothing is yielded, and the lock is free again.
C20_CountRemovesNothing ==
    [][\A d \in Drainers :
        (drainer[d].pc = "iter" /\ iter'[d].ret >= 0) =>
            LET r == drainer[d].r IN
            /\ iter'[d].ret = Len(queue[r])
            /\ queue'[r] = queue[r]
            /\ got' = got
            /\ lock'[r] = 0
            /\ drainer'[d].pc = "idle"]_vars

\* C20 witness: count() returned 2 on a reader that holds two events, and
\* the two are still in its queue.
C20_Witness ==
    /\ drainer[1].pc = "idle"
    /\ iter[1].ret = 2
    /\ Len(queue[1]) = 2
    /\ got[1] = EmptyBag

====
